---- MODULE Spec2Model ----
(***************************************************************************)
(* Model of the simulation engine of src/main.py: the Scheduler (ready     *)
(* queue, dispatch, slice execution, metrics), the MemoryManager (frames,  *)
(* hit/fault, LRU/FIFO replacement) and the FileSystem (lock, log,         *)
(* conflicts), driven by the run loop of OSSimulatorGUI.run_simulation.    *)
(***************************************************************************)
EXTENDS Integers, Sequences, FiniteSets, TLC

\* ---------------------------------------------------------------- bounds
MaxProcs == 2        \* processes generated for a run: 0..MaxProcs
MaxBurst == 3        \* burst_time drawn from 1..MaxBurst
MaxPriority == 2     \* priority drawn from 1..MaxPriority
MaxQuantum == 2      \* quantum drawn from 1..MaxQuantum
MaxFrames == 2       \* num_frames: MaxFrames in a run, 1..MaxFrames for a direct caller
MaxPage == 2         \* page numbers 0..MaxPage
MaxClock == 2        \* a direct caller's readings of time.time() are 0..MaxClock
MaxLog == 1          \* file accesses made during one run, at most
MaxAccesses == 4     \* access_page calls made by a direct caller, at most
MaxCallers == 3      \* concurrent callers of access_file
MaxCalls == 3        \* access_file calls made by the concurrent callers, at most
MaxStarts == 2       \* simulation threads started by presses of the start button, at most

\* Python's None, for the Optional[...] fields (every real value is >= 0).
None == -1

Algorithms == {"RR", "SJF", "PRIORITY"}
Replacements == {"LRU", "FIFO"}
FileNames == <<"archivo1.txt", "archivo2.txt", "archivo3.txt">>
Pages == 0 .. MaxPage

VARIABLES
    \* Scheduler
    algorithm, quantum, ready_queue, completed_processes, current_time, metrics,
    \* OSSimulatorGUI: the generated batch, the running flag, and the position
    \* of start_simulation / run_simulation with its local variable `process`
    processes, running, pc, admit_i, process,
    \* MemoryManager
    num_frames, frames, page_faults, page_hits, replacement_algorithm,
    \* FileSystem
    files, access_log, conflicts,
    \* time.time()
    clock,
    \* observations of calls: the pids get_next_process returned, in order;
    \* the arguments and result of the last access_page call and the number
    \* of calls made; for each process, the execution time given to other
    \* processes while it was not terminated
    dispatch_order, mem_call, mem_calls, waited,
    \* concurrent callers of FileSystem.access_file: the position of each in
    \* its call with its local state, and the number of calls that returned
    callers, calls_done,
    \* OSSimulatorGUI: the paused flag, the state of the three buttons, the
    \* texts of the three entries, the number of engines start_simulation
    \* built, the simulation threads it started with the position and the
    \* local variable `process` of each, and the callbacks queued by
    \* root.after
    paused, buttons, entries, engines, threads, after_pending

sched_vars == <<algorithm, quantum, ready_queue, completed_processes, current_time, metrics>>
gui_vars == <<processes, running, pc, admit_i, process>>
mem_vars == <<num_frames, frames, page_faults, page_hits, replacement_algorithm>>
fs_vars == <<files, access_log, conflicts>>
obs_vars == <<dispatch_order, mem_call, mem_calls, waited>>
call_vars == <<callers, calls_done>>
ctl_vars == <<paused, buttons, entries, engines, threads, after_pending>>
vars == <<sched_vars, gui_vars, mem_vars, fs_vars, clock, obs_vars, call_vars, ctl_vars>>

\* ------------------------------------------------------------- data types
\* Process as built by _generate_processes: state NEW, remaining = burst.
\* pages_needed and file_access are the sets random.choice draws from, both
\* non-empty (__post_init__); here one page and one file per process.
NewProcess(i, prio, burst) ==
    [pid |-> i, priority |-> prio, burst_time |-> burst, remaining_time |-> burst,
     arrival_time |-> 0, start_time |-> None, finish_time |-> None,
     waiting_time |-> 0, state |-> "NEW",
     pages_needed |-> {i % (MaxPage + 1)},
     file_access |-> {FileNames[(i % 3) + 1]}]

EmptyFrame ==
    [page_number |-> None, process_id |-> None, last_access_time |-> 0, load_time |-> 0]

\* self.processes is a list and pid its index: the process with pid i.
Pids == {processes[i].pid : i \in 1 .. Len(processes)}
P(pid) == processes[pid + 1]

\* Readings time.time() can give after a reading of c: not earlier than c.
Now(c) == {t \in {c, c + 1} : t <= MaxClock}

Min(a, b) == IF a <= b THEN a ELSE b

\* ------------------------------------------------------------ FileSystem
LogEntry(process_id, filename, mode, status, t) ==
    [process |-> process_id, file |-> filename, mode |-> mode, status |-> status, time |-> t]

\* access_file run by one caller from acquire to return. The lock taken at
\* line 76 is released at line 87, so `files` is as before on return.
access_file(filename, process_id, mode, t) ==
    IF ~files[filename]
    THEN /\ access_log' = Append(access_log, LogEntry(process_id, filename, mode, "SUCCESS", t))
         /\ UNCHANGED <<files, conflicts>>
    ELSE /\ conflicts' = conflicts + 1
         /\ access_log' = Append(access_log, LogEntry(process_id, filename, mode, "CONFLICT", t))
         /\ UNCHANGED files

\* access_file under concurrent callers: one action per step of caller c,
\* who acts for process c - 1. The steps of different callers interleave.
Callers == 1 .. MaxCallers
IdleCaller ==
    [pc |-> "idle", file |-> FileNames[1], read |-> 0, free |-> FALSE,
     appended |-> <<>>, result |-> FALSE, called |-> FALSE]

\* Mutant: the lock stays held on return.
ReleaseSkipped(locks, filename) == locks

\* Mutant: a successful acquire does not take the lock.
AcquireSkipped(locks, filename) == locks

\* Lock.acquire(blocking=False) that succeeds, line 76; Lock.release(), line 87.
Acquired(locks, filename) == [locks EXCEPT ![filename] = TRUE]
Released(locks, filename) == [locks EXCEPT ![filename] = FALSE]

CallsStarted == calls_done + Cardinality({c \in Callers : callers[c].pc # "idle"})

\* Line 76: the call and its non-blocking acquire, which is atomic.
acquire(c) ==
    /\ callers[c].pc = "idle"
    /\ CallsStarted < MaxCalls
    /\ \E filename \in {FileNames[i] : i \in 1 .. 3} :
          /\ files' = IF files[filename] THEN files ELSE Acquired(files, filename)
          /\ callers' = [callers EXCEPT ![c] =
                 [pc |-> IF files[filename] THEN "read_conflicts" ELSE "append_success",
                  file |-> filename, read |-> 0, free |-> ~files[filename],
                  appended |-> <<>>, result |-> FALSE, called |-> TRUE]]
    /\ UNCHANGED <<access_log, conflicts, calls_done, clock>>

\* Lines 79-85: list.append of the SUCCESS entry, with a reading of time.time().
append_success(c) ==
    /\ callers[c].pc = "append_success"
    /\ access_log' = Append(access_log,
           LogEntry(c - 1, callers[c].file, "read", "SUCCESS", clock))
    /\ callers' = [callers EXCEPT ![c].pc = "sleep",
                                  ![c].appended = Append(@, "SUCCESS")]
    /\ UNCHANGED <<files, conflicts, calls_done, clock>>

\* Lines 86-88: after the sleep the lock is released and True is returned.
\* Time passes in the sleeps of line 86: a reading of time.time() is the
\* number of sleeps that ended before it, up to MaxClock.
release(c) ==
    /\ callers[c].pc = "sleep"
    /\ files' = Released(files, callers[c].file)
    /\ callers' = [callers EXCEPT ![c].pc = "idle", ![c].result = TRUE]
    /\ calls_done' = calls_done + 1
    /\ clock' = Min(clock + 1, MaxClock)
    /\ UNCHANGED <<access_log, conflicts>>

\* Line 90, self.conflicts += 1, is a read of the attribute, an addition
\* and a write of the attribute; no lock is held around the three.
read_conflicts(c) ==
    /\ callers[c].pc = "read_conflicts"
    /\ callers' = [callers EXCEPT ![c].pc = "write_conflicts", ![c].read = conflicts]
    /\ UNCHANGED <<fs_vars, calls_done, clock>>

write_conflicts(c) ==
    /\ callers[c].pc = "write_conflicts"
    /\ conflicts' = callers[c].read + 1
    /\ callers' = [callers EXCEPT ![c].pc = "append_conflict", ![c].read = 0]
    /\ UNCHANGED <<files, access_log, calls_done, clock>>

\* Lines 91-98: list.append of the CONFLICT entry, and False is returned.
append_conflict(c) ==
    /\ callers[c].pc = "append_conflict"
    /\ access_log' = Append(access_log,
           LogEntry(c - 1, callers[c].file, "read", "CONFLICT", clock))
    /\ callers' = [callers EXCEPT ![c].pc = "idle", ![c].result = FALSE,
                                  ![c].appended = Append(@, "CONFLICT")]
    /\ calls_done' = calls_done + 1
    /\ UNCHANGED <<files, conflicts, clock>>

\* --------------------------------------------------------- MemoryManager
Matches(frs, page_number, process_id) ==
    {i \in 1 .. Len(frs) : frs[i].page_number = page_number /\ frs[i].process_id = process_id}

FirstOf(S) == CHOOSE i \in S : \A j \in S : i <= j

\* Mutant: among frames with the minimal key the last one is taken.
MinFrameLast(frs, key) ==
    LET least == {i \in 1 .. Len(frs) : \A j \in 1 .. Len(frs) : frs[i][key] <= frs[j][key]}
    IN  CHOOSE i \in least : \A j \in least : i >= j

\* min(self.frames, key=...): the first frame in storage order with the minimal key.
MinFrame(frs, key) ==
    FirstOf({i \in 1 .. Len(frs) : \A j \in 1 .. Len(frs) : frs[i][key] <= frs[j][key]})

\* Mutant: the victim is the least recently used frame under FIFO too.
VictimIgnoresPolicy(frs, alg) == MinFrame(frs, "last_access_time")

Victim(frs, alg) ==
    IF alg = "FIFO" THEN MinFrame(frs, "load_time") ELSE MinFrame(frs, "last_access_time")

BoundFrame(page_number, process_id, t) ==
    [page_number |-> page_number, process_id |-> process_id,
     last_access_time |-> t, load_time |-> t]

\* Mutant: the loop over the free frames does not return after the first
\* one, so every free frame is bound and a victim is overwritten as well.
load_page_no_return(frs, alg, page_number, process_id, t) ==
    LET filled == [i \in 1 .. Len(frs) |->
                      IF frs[i].page_number = None
                      THEN BoundFrame(page_number, process_id, t) ELSE frs[i]]
    IN  [filled EXCEPT ![Victim(filled, alg)] = BoundFrame(page_number, process_id, t)]

\* Mutant: the last free frame in storage order is filled.
load_page_last_free(frs, alg, page_number, process_id, t) ==
    LET free == {i \in 1 .. Len(frs) : frs[i].page_number = None}
    IN  IF free # {}
        THEN [frs EXCEPT ![CHOOSE i \in free : \A j \in free : i >= j] =
                 BoundFrame(page_number, process_id, t)]
        ELSE [frs EXCEPT ![Victim(frs, alg)] = BoundFrame(page_number, process_id, t)]

\* Mutant: with no free frame the victim is cleared and the page not loaded.
load_page_evict_only(frs, alg, page_number, process_id, t) ==
    LET free == {i \in 1 .. Len(frs) : frs[i].page_number = None}
    IN  IF free # {}
        THEN [frs EXCEPT ![FirstOf(free)] = BoundFrame(page_number, process_id, t)]
        ELSE [frs EXCEPT ![Victim(frs, alg)] =
                 [page_number |-> None, process_id |-> None,
                  last_access_time |-> 0, load_time |-> 0]]

load_page(frs, alg, page_number, process_id, t) ==
    LET free == {i \in 1 .. Len(frs) : frs[i].page_number = None}
    IN  IF free # {}
        THEN [frs EXCEPT ![FirstOf(free)] = BoundFrame(page_number, process_id, t)]
        ELSE [frs EXCEPT ![Victim(frs, alg)] = BoundFrame(page_number, process_id, t)]

\* The frames after access_page (hit: the first matching frame is touched).
FramesAfterAccess(frs, alg, page_number, process_id, t) ==
    LET m == Matches(frs, page_number, process_id)
    IN  IF m # {}
        THEN [frs EXCEPT ![FirstOf(m)].last_access_time = t]
        ELSE load_page(frs, alg, page_number, process_id, t)

\* Mutant: every access is counted as a fault.
IsFaultAlways(frs, page_number, process_id) == TRUE

IsFault(frs, page_number, process_id) == Matches(frs, page_number, process_id) = {}

access_page(page_number, process_id, t) ==
    LET fault == IsFault(frames, page_number, process_id)
    IN  /\ frames' = FramesAfterAccess(frames, replacement_algorithm, page_number, process_id, t)
        /\ page_hits' = IF fault THEN page_hits ELSE page_hits + 1
        /\ page_faults' = IF fault THEN page_faults + 1 ELSE page_faults
        /\ mem_call' = [page |-> page_number, pid |-> process_id, fault |-> fault, time |-> t]
        /\ mem_calls' = mem_calls + 1
        /\ UNCHANGED <<num_frames, replacement_algorithm>>

Occupied(frs) == Cardinality({i \in 1 .. Len(frs) : frs[i].page_number # None})

\* (occupied / num_frames) * 100 as the exact fraction num / den.
get_memory_usage == [num |-> Occupied(frames) * 100, den |-> num_frames]

\* ------------------------------------------------------------- Scheduler
\* sorted(queue, key=...): stable, ascending. Insertion after every element
\* whose key is not greater keeps equal keys in their previous order.
\* Mutant: the insertion goes before the elements with an equal key.
RECURSIVE InsertBeforeEqual(_, _, _)
InsertBeforeEqual(s, x, key) ==
    IF s = <<>> THEN <<x>>
    ELSE IF key[x] <= key[Head(s)] THEN <<x>> \o s
    ELSE <<Head(s)>> \o InsertBeforeEqual(Tail(s), x, key)

RECURSIVE InsertByKey(_, _, _)
InsertByKey(s, x, key) ==
    IF s = <<>> THEN <<x>>
    ELSE IF key[x] < key[Head(s)] THEN <<x>> \o s
    ELSE <<Head(s)>> \o InsertByKey(Tail(s), x, key)

RECURSIVE sorted(_, _)
sorted(q, key) ==
    IF q = <<>> THEN <<>>
    ELSE InsertByKey(sorted(SubSeq(q, 1, Len(q) - 1), key), q[Len(q)], key)

\* _sort_queue on a queue q of pids, procs being the list of processes.
sort_queue(q, alg, procs) ==
    IF alg = "SJF"
    THEN sorted(q, [p \in 0 .. Len(procs) - 1 |-> procs[p + 1].remaining_time])
    ELSE IF alg = "PRIORITY"
    THEN sorted(q, [p \in 0 .. Len(procs) - 1 |-> procs[p + 1].priority])
    ELSE q

\* Mutant: the process is taken from the tail of the queue.
PopLeftTakesLast(q) == SubSeq(q, 1, Len(q) - 1)

\* Mutant: the head is read and left in the queue.
PopLeftKeepsHead(q) == q

\* deque.popleft(), line 177: the queue left behind.
PopLeft(q) == Tail(q)

\* Mutant: the process goes back to the head of the queue.
RequeueFront(q, pid, alg, procs) ==
    IF alg # "RR" THEN sort_queue(<<pid>> \o q, alg, procs) ELSE <<pid>> \o q

\* Lines 213-215: the process goes to the tail, and the queue is sorted
\* again unless the policy is RR.
Requeue(q, pid, alg, procs) ==
    IF alg # "RR" THEN sort_queue(Append(q, pid), alg, procs) ELSE Append(q, pid)

\* Mutant: a process with nothing left to run is not ended.
TerminatesBelowZero(remaining_time) == remaining_time < 0

\* Line 204: the test that ends a process.
Terminates(remaining_time) == remaining_time <= 0

\* Mutant: the slice is not capped by the remaining time.
ExecutionTimeNoMin(alg, q, remaining_time) ==
    IF alg = "RR" THEN q ELSE remaining_time

\* Mutant: the quantum cuts the slice under every policy.
ExecutionTimeQuantumAlways(alg, q, remaining_time) ==
    Min(q, remaining_time)

ExecutionTime(alg, q, remaining_time) ==
    Min(IF alg = "RR" THEN q ELSE remaining_time, remaining_time)

\* Mutant: the turnaround is counted from the first dispatch.
UpdatedMetricsFromStart(m, p) ==
    [total_processes |-> m.total_processes + 1,
     total_waiting_time |-> m.total_waiting_time + p.waiting_time,
     total_turnaround_time |-> m.total_turnaround_time + (p.finish_time - p.start_time)]

UpdatedMetrics(m, p) ==
    [total_processes |-> m.total_processes + 1,
     total_waiting_time |-> m.total_waiting_time + p.waiting_time,
     total_turnaround_time |-> m.total_turnaround_time + (p.finish_time - p.arrival_time)]

\* get_metrics, lines 224-233: each average total / n as the exact fraction
\* num / den; with n = 0 the three values are 0 and nothing is divided.
Zero == [num |-> 0, den |-> 1]

get_metrics ==
    LET n == metrics.total_processes
    IN  IF n = 0
        THEN [avg_waiting_time |-> Zero, avg_turnaround_time |-> Zero, total_processes |-> 0]
        ELSE [avg_waiting_time |-> [num |-> metrics.total_waiting_time, den |-> n],
              avg_turnaround_time |-> [num |-> metrics.total_turnaround_time, den |-> n],
              total_processes |-> n]

\* ---------------------------------------------------------------- driver
\* The three buttons as create_widgets leaves them (lines 380 and 391), as
\* start_simulation sets them (lines 511-513), and as stop_simulation and
\* the end of run_simulation set them (lines 526-528, 548-550).
ButtonsIdle == [start_btn |-> "normal", pause_btn |-> "disabled", stop_btn |-> "disabled"]
ButtonsRunning == [start_btn |-> "disabled", pause_btn |-> "normal", stop_btn |-> "normal"]

\* The policy menu and the texts of the entries as create_widgets sets
\* them: "RR", "8", "2", "10". A text is its sequence of characters.
DefaultEntries ==
    [algo |-> "RR", num_processes |-> <<"8">>, quantum |-> <<"2">>,
     frames |-> <<"1", "0">>]

\* start_simulation, lines 508-509: add_process for each process, in order.
add_process ==
    /\ pc = "admit"
    /\ admit_i < Len(processes)
    /\ LET procs == [processes EXCEPT ![admit_i + 1].state = "READY",
                                      ![admit_i + 1].arrival_time = current_time]
       IN  /\ processes' = procs
           /\ ready_queue' = sort_queue(Append(ready_queue, processes[admit_i + 1].pid),
                                        algorithm, procs)
    /\ admit_i' = admit_i + 1
    /\ UNCHANGED <<algorithm, quantum, completed_processes, current_time, metrics,
                   running, pc, process, mem_vars, fs_vars, clock, obs_vars>>
    /\ UNCHANGED <<call_vars, ctl_vars>>

\* start_simulation, lines 515-516: the simulation thread starts.
simulation_thread_start ==
    /\ pc = "admit"
    /\ admit_i = Len(processes)
    /\ pc' = "loop"
    /\ buttons' = ButtonsRunning
    /\ UNCHANGED <<sched_vars, processes, running, admit_i, process,
                   mem_vars, fs_vars, clock, obs_vars>>
    /\ UNCHANGED <<call_vars, paused, entries, engines, threads, after_pending>>

\* Mutant: every dispatch sets start_time.
StartTimeOverwritten(start_time, now) == now

\* Lines 180-181: start_time is set if it is None.
StartTime(start_time, now) == IF start_time = None THEN now ELSE start_time

\* The test of the while loop, line 532.
LoopCondition ==
    running /\ (ready_queue # <<>> \/ Len(completed_processes) < Len(processes))

\* Scheduler.get_next_process, lines 173-183, called where run_simulation
\* calls it (line 538); the result is assigned to `process` and tested at
\* line 540.
Dispatch(p) ==
    /\ ready_queue' = PopLeft(ready_queue)
    /\ processes' = [processes EXCEPT
           ![p + 1].state = "RUNNING",
           ![p + 1].start_time = StartTime(@, current_time)]
    /\ dispatch_order' = Append(dispatch_order, p)

call_get_next_process ==
    /\ pc = "loop"
    /\ IF ready_queue = <<>>
       THEN /\ process' = None
            /\ pc' = "exit"
            /\ UNCHANGED <<ready_queue, processes, dispatch_order>>
       ELSE /\ Dispatch(Head(ready_queue))
            /\ process' = Head(ready_queue)
            /\ pc' = "execute"
    /\ UNCHANGED <<algorithm, quantum, completed_processes, current_time, metrics,
                   running, admit_i, mem_vars, fs_vars, clock, mem_call, mem_calls,
                   waited>>
    /\ UNCHANGED <<call_vars, ctl_vars>>

\* run_simulation, lines 532-545: the loop test holds and get_next_process runs.
get_next_process ==
    /\ LoopCondition
    /\ call_get_next_process

\* Mutant: the clock of the scheduler goes up by one per slice.
AdvancedByOne(time, execution_time) == time + 1

\* Line 202: self.current_time += execution_time.
Advanced(time, execution_time) == time + execution_time

\* Mutant: the burst is not subtracted.
WaitingTimeKeepsBurst(finish_time, arrival_time, burst_time) == finish_time - arrival_time

\* Line 207: finish_time - arrival_time - burst_time.
WaitingTime(finish_time, arrival_time, burst_time) ==
    finish_time - arrival_time - burst_time

\* The scheduler's part of execute_process, lines 190-191 and 201-216, for pid p.
Slice(p) ==
    LET execution_time == ExecutionTime(algorithm, quantum, P(p).remaining_time)
        remaining == P(p).remaining_time - execution_time
        now == Advanced(current_time, execution_time)
    IN  /\ current_time' = now
        /\ waited' = [i \in 1 .. Len(processes) |->
               IF i # p + 1 /\ processes[i].state # "TERMINATED"
               THEN waited[i] + execution_time ELSE waited[i]]
        /\ IF Terminates(remaining)
           THEN LET done == [P(p) EXCEPT
                        !.remaining_time = remaining,
                        !.state = "TERMINATED",
                        !.finish_time = now,
                        !.waiting_time =
                            WaitingTime(now, P(p).arrival_time, P(p).burst_time)]
                IN  /\ processes' = [processes EXCEPT ![p + 1] = done]
                    /\ completed_processes' = Append(completed_processes, p)
                    /\ metrics' = UpdatedMetrics(metrics, done)
                    /\ UNCHANGED ready_queue
           ELSE LET procs == [processes EXCEPT ![p + 1].remaining_time = remaining,
                                               ![p + 1].state = "READY"]
                IN  /\ processes' = procs
                    /\ ready_queue' = Requeue(ready_queue, p, algorithm, procs)
                    /\ UNCHANGED <<completed_processes, metrics>>

\* run_simulation, line 541: execute_process(process, memory, filesystem).
\* Line 543 sleeps between two calls, so the readings of time.time() of one
\* slice are later than those of the slices before it: a slice is one tick
\* of clock, and its two readings (lines 111 and 84) fall in that tick.
\* random.random() < 0.2 is either outcome; a run makes at most MaxLog
\* file accesses.
Execute(p) ==
    IF P(p).remaining_time <= 0
    THEN UNCHANGED <<ready_queue, completed_processes, current_time, metrics,
                     processes, mem_vars, fs_vars, clock, mem_call, mem_calls, waited>>
    ELSE /\ Slice(p)
         /\ clock' = clock + 1
         /\ \E page \in P(p).pages_needed :
               access_page(page, p, clock + 1)
         /\ \/ UNCHANGED fs_vars
            \/ /\ Len(access_log) < MaxLog
               /\ \E file \in P(p).file_access :
                     access_file(file, p, "read", clock + 1)

execute_process ==
    /\ pc = "execute"
    /\ pc' = "loop"
    /\ process' = None
    /\ Execute(process)
    /\ UNCHANGED <<algorithm, quantum, running, admit_i, dispatch_order>>
    /\ UNCHANGED <<call_vars, ctl_vars>>

\* run_simulation, lines 532 and 545-547: the loop ends.
run_simulation_exit ==
    /\ \/ pc = "exit"
       \/ pc = "loop" /\ ~LoopCondition
    /\ pc' = "done"
    /\ running' = FALSE
    /\ UNCHANGED <<sched_vars, processes, admit_i, process, mem_vars, fs_vars,
                   clock, obs_vars>>
    /\ UNCHANGED <<call_vars, ctl_vars>>

\* A direct caller of MemoryManager.access_page, any page of any process.
MemPids == 0 .. 1

CallAccessPage ==
    /\ pc = "caller"
    /\ mem_calls < MaxAccesses
    /\ \E page \in Pages, pid \in MemPids, t \in Now(clock) :
          /\ access_page(page, pid, t)
          /\ clock' = t
    /\ UNCHANGED <<sched_vars, gui_vars, fs_vars, dispatch_order, waited>>
    /\ UNCHANGED <<call_vars, ctl_vars>>

\* ---------------------------------------------------------- specification
InitMemory(n, alg) ==
    /\ num_frames = n
    /\ frames = [i \in 1 .. n |-> EmptyFrame]
    /\ page_faults = 0
    /\ page_hits = 0
    /\ replacement_algorithm = alg

InitFileSystem ==
    /\ files = [f \in {FileNames[i] : i \in 1 .. 3} |-> FALSE]
    /\ access_log = <<>>
    /\ conflicts = 0

InitScheduler(alg, q) ==
    /\ algorithm = alg
    /\ quantum = q
    /\ ready_queue = <<>>
    /\ completed_processes = <<>>
    /\ current_time = 0
    /\ metrics = [total_waiting_time |-> 0, total_turnaround_time |-> 0,
                  total_processes |-> 0]

InitObservations ==
    /\ dispatch_order = <<>>
    /\ mem_call = [page |-> None, pid |-> None, fault |-> FALSE, time |-> 0]
    /\ mem_calls = 0
    /\ waited = [i \in 1 .. Len(processes) |-> 0]

\* No access_file call is in flight, none was made.
InitCallers ==
    /\ callers = [c \in Callers |-> IdleCaller]
    /\ calls_done = 0

\* The controls as OSSimulatorGUI.__init__ leaves them, lines 250-258; no
\* simulation thread exists.
Threads == 1 .. MaxStarts
NoThread == [pc |-> "none", process |-> None]

InitControls(texts) ==
    /\ paused = FALSE
    /\ buttons = ButtonsIdle
    /\ entries = texts
    /\ threads = [t \in Threads |-> NoThread]
    /\ after_pending = FALSE

\* _generate_processes(n) with the given priorities and bursts.
Generated(n, prio, burst) == [i \in 1 .. n |-> NewProcess(i - 1, prio[i], burst[i])]

\* The state of start_simulation at line 507: engine built, batch generated.
\* The thread of such a run is followed by pc and process.
InitRun(algs, quanta, batches) ==
    /\ \E alg \in algs, q \in quanta : InitScheduler(alg, q)
    /\ InitMemory(MaxFrames, "LRU")
    /\ InitFileSystem
    /\ processes \in batches
    /\ running = TRUE
    /\ pc = "admit"
    /\ admit_i = 0
    /\ process = None
    /\ clock = 0
    /\ InitObservations
    /\ InitCallers
    /\ InitControls(DefaultEntries)
    /\ engines = 1

Batches ==
    UNION {{Generated(n, prio, burst) :
                prio \in [1 .. n -> 1 .. MaxPriority], burst \in [1 .. n -> 1 .. MaxBurst]} :
           n \in 0 .. MaxProcs}

Init == InitRun(Algorithms, 1 .. MaxQuantum, Batches)

Next ==
    \/ add_process
    \/ simulation_thread_start
    \/ get_next_process
    \/ execute_process
    \/ run_simulation_exit

Spec == Init /\ [][Next]_vars

\* The simulation thread keeps running until its loop ends.
FairSpec == Spec /\ WF_vars(Next)

\* The Scheduler under a caller that does not test the queue before it
\* calls get_next_process, and stops after a None.
NextCaller ==
    \/ add_process
    \/ simulation_thread_start
    \/ call_get_next_process
    \/ execute_process
    \/ run_simulation_exit

SpecCaller == Init /\ [][NextCaller]_vars

\* The MemoryManager alone, under a direct caller.
InitMem ==
    /\ InitScheduler("RR", 2)
    /\ \E n \in 1 .. MaxFrames, alg \in Replacements : InitMemory(n, alg)
    /\ InitFileSystem
    /\ processes = <<>>
    /\ running = FALSE
    /\ pc = "caller"
    /\ admit_i = 0
    /\ process = None
    /\ clock = 0
    /\ InitObservations
    /\ InitCallers
    /\ InitControls(DefaultEntries)
    /\ engines = 0

NextMem == CallAccessPage

SpecMem == InitMem /\ [][NextMem]_vars

\* The scheduling scenario: bursts 5, 3, 8 for P0, P1, P2, under RR with
\* quantum 2 or under SJF.
InitScenario ==
    InitRun({"RR", "SJF"}, {2}, {Generated(3, <<1, 1, 1>>, <<5, 3, 8>>)})

SpecScenario == InitScenario /\ [][Next]_vars

\* The paging scenario: 2 frames under LRU, one process accesses pages
\* 1, 2, 3 in that order; any accesses may follow.
ScenarioPages == <<1, 2, 3>>

ScenarioAccess ==
    /\ pc = "caller"
    /\ mem_calls < Len(ScenarioPages)
    /\ \E pid \in MemPids, t \in Now(clock) :
          /\ mem_calls > 0 => pid = mem_call.pid
          /\ access_page(ScenarioPages[mem_calls + 1], pid, t)
          /\ clock' = t
    /\ UNCHANGED <<sched_vars, gui_vars, fs_vars, dispatch_order, waited>>
    /\ UNCHANGED <<call_vars, ctl_vars>>

FollowUpAccess ==
    /\ mem_calls >= Len(ScenarioPages)
    /\ CallAccessPage

InitLRU ==
    /\ InitMem
    /\ num_frames = 2
    /\ replacement_algorithm = "LRU"

SpecLRU == InitLRU /\ [][ScenarioAccess \/ FollowUpAccess]_vars

\* The FileSystem alone, under concurrent callers of access_file.
InitFS ==
    /\ InitScheduler("RR", 2)
    /\ InitMemory(MaxFrames, "LRU")
    /\ InitFileSystem
    /\ processes = <<>>
    /\ running = FALSE
    /\ pc = "caller"
    /\ admit_i = 0
    /\ process = None
    /\ clock = 0
    /\ InitObservations
    /\ InitCallers
    /\ InitControls(DefaultEntries)
    /\ engines = 0

NextFS ==
    /\ \E c \in Callers :
          \/ acquire(c)
          \/ append_success(c)
          \/ release(c)
          \/ read_conflicts(c)
          \/ write_conflicts(c)
          \/ append_conflict(c)
    /\ UNCHANGED <<sched_vars, gui_vars, mem_vars, obs_vars, ctl_vars>>

SpecFS == InitFS /\ [][NextFS]_vars

\* -------------------------------------------------------------------- GUI
\* int(text) for a text of an entry: an optional sign and decimal digits
\* give the integer, every other text of Texts raises ValueError.
Digits == <<"0", "1", "2", "3", "4", "5", "6", "7", "8", "9">>
IsDigit(ch) == \E d \in DOMAIN Digits : Digits[d] = ch
DigitValue(ch) == (CHOOSE d \in DOMAIN Digits : Digits[d] = ch) - 1
IsDigits(text) == text # <<>> /\ \A i \in 1 .. Len(text) : IsDigit(text[i])

RECURSIVE Value(_)
Value(text) ==
    IF text = <<>> THEN 0
    ELSE 10 * Value(SubSeq(text, 1, Len(text) - 1)) + DigitValue(text[Len(text)])

Signed(text) == Len(text) >= 2 /\ text[1] \in {"-", "+"}
ValueError(text) == ~(IsDigits(text) \/ (Signed(text) /\ IsDigits(Tail(text))))
int(text) ==
    IF Signed(text)
    THEN IF text[1] = "-" THEN 0 - Value(Tail(text)) ELSE Value(Tail(text))
    ELSE Value(text)

\* Texts a user types into an entry: empty, not a number, negative, zero,
\* positive.
Texts == {<<>>, <<"a">>, <<"-", "1">>, <<"0">>, <<"1">>, <<"2">>}
Fields == {"num_processes", "quantum", "frames"}

\* The state after OSSimulatorGUI.__init__, lines 250-258: no engine exists
\* (the scheduler, memory and filesystem attributes are None), which is
\* engines = 0; the engine variables hold the values of a new engine.
InitGUI(texts) ==
    /\ InitScheduler("RR", 2)
    /\ InitMemory(MaxFrames, "LRU")
    /\ InitFileSystem
    /\ processes = <<>>
    /\ running = FALSE
    /\ pc = "gui"
    /\ admit_i = 0
    /\ process = None
    /\ clock = 0
    /\ InitObservations
    /\ InitCallers
    /\ InitControls(texts)
    /\ engines = 0

\* The user types a text into an entry, or chooses a policy in the menu.
edit_entry ==
    /\ \/ \E field \in Fields, text \in Texts :
             entries' = [entries EXCEPT ![field] = text]
       \/ \E alg \in Algorithms : entries' = [entries EXCEPT !.algo = alg]
    /\ UNCHANGED <<sched_vars, gui_vars, mem_vars, fs_vars, clock, obs_vars, call_vars,
                   paused, buttons, engines, threads, after_pending>>

\* scheduler.add_process for the first n processes of procs, in order
\* (lines 508-509), at current_time = 0: the processes and the ready queue.
RECURSIVE AdmitAll(_, _, _)
AdmitAll(procs, alg, n) ==
    IF n <= 0 THEN [procs |-> procs, queue |-> <<>>]
    ELSE LET prev == AdmitAll(procs, alg, n - 1)
             ps == [prev.procs EXCEPT ![n].state = "READY", ![n].arrival_time = 0]
         IN  [procs |-> ps, queue |-> sort_queue(Append(prev.queue, procs[n].pid), alg, ps)]

\* range(num) of _generate_processes is empty for num <= 0.
BatchesOf(num) == {b \in Batches : Len(b) = (IF num <= 0 THEN 0 ELSE num)}

\* Lines 503-509: a new Scheduler, MemoryManager and FileSystem, a new
\* batch, and every process of it admitted.
StartEngine(alg, num_proc, q, n_frames) ==
    \E batch \in BatchesOf(num_proc) :
        LET admitted == AdmitAll(batch, alg, Len(batch))
        IN  /\ algorithm' = alg
            /\ quantum' = q
            /\ ready_queue' = admitted.queue
            /\ completed_processes' = <<>>
            /\ current_time' = 0
            /\ metrics' = [total_waiting_time |-> 0, total_turnaround_time |-> 0,
                           total_processes |-> 0]
            /\ num_frames' = n_frames
            /\ frames' = [i \in 1 .. n_frames |-> EmptyFrame]
            /\ page_faults' = 0
            /\ page_hits' = 0
            /\ replacement_algorithm' = "LRU"
            /\ files' = [f \in DOMAIN files |-> FALSE]
            /\ access_log' = <<>>
            /\ conflicts' = 0
            /\ processes' = admitted.procs
            /\ admit_i' = Len(batch)
            /\ dispatch_order' = <<>>
            /\ mem_call' = [page |-> None, pid |-> None, fault |-> FALSE, time |-> 0]
            /\ mem_calls' = 0
            /\ waited' = [i \in 1 .. Len(batch) |-> 0]
            /\ engines' = engines + 1

FreeThreads == {t \in Threads : threads[t].pc = "none"}

\* start_simulation, lines 489-516, run by a press of the start button.
\* At most MaxStarts threads are started and at most MaxProcs processes
\* generated; the press comes while no thread is inside execute_process.
start_simulation ==
    /\ buttons.start_btn = "normal"
    /\ FreeThreads # {}
    /\ \A t \in Threads : threads[t].pc # "execute"
    /\ IF \/ running
          \/ \E field \in Fields : ValueError(entries[field])
       THEN UNCHANGED vars
       ELSE /\ int(entries.num_processes) <= MaxProcs
            /\ running' = TRUE
            /\ paused' = FALSE
            /\ StartEngine(entries.algo, int(entries.num_processes),
                           int(entries.quantum), int(entries.frames))
            /\ buttons' = ButtonsRunning
            /\ threads' = [threads EXCEPT ![FirstOf(FreeThreads)] =
                              [pc |-> "loop", process |-> None]]
            /\ UNCHANGED <<pc, process, clock, call_vars, entries, after_pending>>

\* pause_simulation, lines 518-521.
pause_simulation ==
    /\ buttons.pause_btn = "normal"
    /\ paused' = ~paused
    /\ UNCHANGED <<sched_vars, gui_vars, mem_vars, fs_vars, clock, obs_vars, call_vars,
                   buttons, entries, engines, threads, after_pending>>

\* stop_simulation, lines 523-528.
stop_simulation ==
    /\ buttons.stop_btn = "normal"
    /\ running' = FALSE
    /\ paused' = FALSE
    /\ buttons' = ButtonsIdle
    /\ UNCHANGED <<sched_vars, processes, pc, admit_i, process, mem_vars, fs_vars, clock,
                   obs_vars, call_vars, entries, engines, threads, after_pending>>

\* The start button with whatever the entries hold: the user edits the
\* entries before the first start; the thread a start creates has not run
\* yet.
NextStart ==
    \/ engines = 0 /\ edit_entry
    \/ start_simulation
    \/ stop_simulation

SpecStart == InitGUI(DefaultEntries) /\ [][NextStart]_vars

\* run_simulation as run by thread t, one action per step between two
\* places where another thread or a button press can come in.
\* Lines 532-535: the loop test and the test of paused. A paused thread
\* sleeps and tests again.
thread_loop_test(t) ==
    /\ threads[t].pc = "loop"
    /\ threads' = [threads EXCEPT ![t].pc =
                      IF ~LoopCondition THEN "exit"
                      ELSE IF paused THEN "loop" ELSE "step"]
    /\ UNCHANGED <<sched_vars, gui_vars, mem_vars, fs_vars, clock, obs_vars, call_vars,
                   paused, buttons, entries, engines, after_pending>>

\* Lines 537-540 and 544-545: get_next_process; None breaks the loop.
thread_get_next_process(t) ==
    /\ threads[t].pc = "step"
    /\ IF ready_queue = <<>>
       THEN /\ threads' = [threads EXCEPT ![t] = [pc |-> "exit", process |-> None]]
            /\ UNCHANGED <<ready_queue, processes, dispatch_order>>
       ELSE /\ Dispatch(Head(ready_queue))
            /\ threads' = [threads EXCEPT ![t] =
                              [pc |-> "execute", process |-> Head(ready_queue)]]
    /\ UNCHANGED <<algorithm, quantum, completed_processes, current_time, metrics,
                   running, pc, admit_i, process, mem_vars, fs_vars, clock, mem_call,
                   mem_calls, waited, call_vars, paused, buttons, entries, engines,
                   after_pending>>

\* Lines 541-543: execute_process, update_ui and the sleep.
thread_execute_process(t) ==
    /\ threads[t].pc = "execute"
    /\ Execute(threads[t].process)
    /\ threads' = [threads EXCEPT ![t] = [pc |-> "loop", process |-> None]]
    /\ UNCHANGED <<algorithm, quantum, running, pc, admit_i, process, dispatch_order,
                   call_vars, paused, buttons, entries, engines, after_pending>>

\* Lines 547-550: running is cleared and the button callbacks are queued.
thread_exit(t) ==
    /\ threads[t].pc = "exit"
    /\ running' = FALSE
    /\ after_pending' = TRUE
    /\ threads' = [threads EXCEPT ![t].pc = "done"]
    /\ UNCHANGED <<sched_vars, processes, pc, admit_i, process, mem_vars, fs_vars, clock,
                   obs_vars, call_vars, paused, buttons, entries, engines>>

\* The main loop runs the callbacks of lines 548-550.
after_callbacks ==
    /\ after_pending
    /\ after_pending' = FALSE
    /\ buttons' = ButtonsIdle
    /\ UNCHANGED <<sched_vars, gui_vars, mem_vars, fs_vars, clock, obs_vars, call_vars,
                   paused, entries, engines, threads>>

\* The GUI with its simulation threads: the entries hold a policy, 1 or 2
\* processes, quantum 2 and MaxFrames frames, and are not edited.
RunEntries ==
    {[algo |-> alg, num_processes |-> <<Digits[n + 1]>>, quantum |-> <<"2">>,
      frames |-> <<Digits[MaxFrames + 1]>>] : alg \in Algorithms, n \in 1 .. MaxProcs}

InitThreads == \E texts \in RunEntries : InitGUI(texts)

NextThreads ==
    \/ start_simulation
    \/ pause_simulation
    \/ stop_simulation
    \/ after_callbacks
    \/ \E t \in Threads :
          \/ thread_loop_test(t)
          \/ thread_get_next_process(t)
          \/ thread_execute_process(t)
          \/ thread_exit(t)

SpecThreads == InitThreads /\ [][NextThreads]_vars

\* ============================================================ properties
Count(s, x) == Cardinality({i \in 1 .. Len(s) : s[i] = x})
Index(s, x) == CHOOSE i \in 1 .. Len(s) : s[i] = x
Admitted == {processes[i].pid : i \in 1 .. admit_i}
IsExecuteStep == pc = "execute" /\ pc' = "loop"

\* C1: after each admission and after every advance step, every admitted
\* process is exactly once in the ready queue or the completed list (never
\* in both, never twice, never lost); once the batch is admitted that is
\* every generated process.
C1_ExactlyOnePlace ==
    pc # "execute" =>
        /\ \A p \in Admitted : Count(ready_queue, p) + Count(completed_processes, p) = 1
        /\ \A p \in Pids \ Admitted : Count(ready_queue, p) + Count(completed_processes, p) = 0
        /\ pc # "admit" => Admitted = Pids

C1_Witness ==
    /\ pc = "loop"
    /\ Len(processes) = 2
    /\ Len(ready_queue) = 1
    /\ Len(completed_processes) = 1
    /\ Len(dispatch_order) >= 3

\* C2: remaining_time never increases in a step, is never negative, and is
\* exactly 0 in the step that marks the process TERMINATED (and ever after).
C2_RemainingTime ==
    /\ [](\A p \in Pids : /\ P(p).remaining_time >= 0
                           /\ P(p).state = "TERMINATED" => P(p).remaining_time = 0)
    /\ [][\A p \in Pids :
            /\ P(p).remaining_time' <= P(p).remaining_time
            /\ (P(p).state # "TERMINATED" /\ P(p).state' = "TERMINATED")
                  => P(p).remaining_time' = 0]_vars

C2_Witness ==
    /\ algorithm = "RR"
    /\ quantum = 2
    /\ \E p \in Pids : P(p).state = "TERMINATED" /\ P(p).burst_time = 3
    /\ \E p \in Pids : P(p).state = "READY" /\ 0 < P(p).remaining_time
                        /\ P(p).remaining_time < P(p).burst_time

\* C3: under RR a slice takes min(quantum, remaining_time) from the
\* dispatched process and adds the same to current_time; under SJF and
\* PRIORITY the slice ends the process (remaining_time 0, TERMINATED) and
\* the ready queue is left as it was: nothing is requeued.
C3_SliceLength ==
    [][IsExecuteStep =>
         \A p \in Pids : p = process =>
            LET before == P(p).remaining_time
                taken == IF quantum <= before THEN quantum ELSE before
            IN  IF algorithm = "RR"
                THEN /\ P(p).remaining_time' = before - taken
                     /\ current_time' = current_time + taken
                     /\ (P(p).state' = "TERMINATED") = (before <= quantum)
                ELSE /\ P(p).remaining_time' = 0
                     /\ current_time' = current_time + before
                     /\ P(p).state' = "TERMINATED"
                     /\ ready_queue' = ready_queue]_vars

C3_Witness ==
    /\ algorithm = "SJF"
    /\ pc = "loop"
    /\ Len(ready_queue) = 1
    /\ \E p \in Pids : /\ P(p).state = "TERMINATED"
                       /\ P(p).burst_time = 3
                       /\ P(p).finish_time = 3
                       /\ dispatch_order = <<p>>

\* C4: the run ends: eventually the ready queue is empty, every generated
\* process is in the completed list and the run loop has exited, for good.
RunComplete ==
    /\ ready_queue = <<>>
    /\ \A p \in Pids : Count(completed_processes, p) = 1
    /\ Len(completed_processes) = Len(processes)
    /\ pc = "done"
    /\ ~running

C4_RunCompletes == <>[]RunComplete

C4_Witness ==
    /\ RunComplete
    /\ algorithm = "RR"
    /\ Len(processes) = 2
    /\ Len(dispatch_order) > 2

\* C5: the ready queue is ascending in remaining_time under SJF and in
\* priority under PRIORITY; a step keeps the relative order of queued
\* processes with equal keys and puts a newcomer after them; under RR the
\* queue only ever gets a process at its tail or loses its head. So SJF and
\* PRIORITY dispatch in ascending key order, ties in admission order.
Key(p) == IF algorithm = "SJF" THEN P(p).remaining_time ELSE P(p).priority
DispatchKey(p) == IF algorithm = "SJF" THEN P(p).burst_time ELSE P(p).priority
InSeq(s) == {s[i] : i \in 1 .. Len(s)}

C5_QueueOrder ==
    /\ [](algorithm # "RR" =>
            /\ \A i, j \in 1 .. Len(ready_queue) :
                  i < j => Key(ready_queue[i]) <= Key(ready_queue[j])
            /\ \A i, j \in 1 .. Len(dispatch_order) :
                  i < j => \/ DispatchKey(dispatch_order[i]) < DispatchKey(dispatch_order[j])
                           \/ /\ DispatchKey(dispatch_order[i]) = DispatchKey(dispatch_order[j])
                              /\ dispatch_order[i] < dispatch_order[j])
    /\ [][algorithm # "RR" =>
            \A a, b \in InSeq(ready_queue') :
               (/\ a # b
                /\ Key(a)' = Key(b)'
                /\ a \in InSeq(ready_queue)
                /\ (b \in InSeq(ready_queue)
                      => Index(ready_queue, a) < Index(ready_queue, b)))
               => Index(ready_queue', a) < Index(ready_queue', b)]_vars
    /\ [][algorithm = "RR" =>
            \/ ready_queue' = ready_queue
            \/ (ready_queue # <<>> /\ ready_queue' = Tail(ready_queue))
            \/ \E p \in Pids : ready_queue' = Append(ready_queue, p)]_vars

C5_Witness ==
    /\ algorithm = "PRIORITY"
    /\ pc = "admit"
    /\ ready_queue = <<1, 0>>
    /\ P(0).priority > P(1).priority
    /\ P(0).burst_time < P(1).burst_time

\* C6: bursts 5, 3, 8 admitted as P0, P1, P2 at time 0. Under RR with
\* quantum 2 the dispatches are P0 P1 P2 P0 P1 P2 P0 P2 P2 and the processes
\* end in the order P1 (at 9), P0 (at 12), P2 (at 16); under SJF they are
\* dispatched P1, P0, P2, each run to its end, at 3, 8 and 16.
IsPrefix(s, t) == Len(s) <= Len(t) /\ s = SubSeq(t, 1, Len(s))
FinishTimes == [p \in Pids |-> P(p).finish_time]

C6_Scenario ==
    /\ \A p \in Pids : P(p).state # "NEW" => P(p).arrival_time = 0
    /\ IF algorithm = "RR"
       THEN /\ IsPrefix(dispatch_order, <<0, 1, 2, 0, 1, 2, 0, 2, 2>>)
            /\ IsPrefix(completed_processes, <<1, 0, 2>>)
            /\ pc = "done" =>
                  /\ dispatch_order = <<0, 1, 2, 0, 1, 2, 0, 2, 2>>
                  /\ completed_processes = <<1, 0, 2>>
                  /\ FinishTimes = (0 :> 12 @@ 1 :> 9 @@ 2 :> 16)
       ELSE /\ IsPrefix(dispatch_order, <<1, 0, 2>>)
            /\ \A p \in Pids : P(p).remaining_time \in {0, P(p).burst_time}
            /\ pc = "done" =>
                  /\ dispatch_order = <<1, 0, 2>>
                  /\ completed_processes = <<1, 0, 2>>
                  /\ FinishTimes = (0 :> 8 @@ 1 :> 3 @@ 2 :> 16)

C6_Witness ==
    /\ pc = "done"
    /\ algorithm = "RR"
    /\ Len(dispatch_order) = 9
    /\ current_time = 16

\* C7: an access to a (page, process) that a frame is bound to, in
\* particular the one the previous access was for, is a hit: the hit
\* counter goes up by one and the fault counter stays; and after a fault
\* exactly one frame is bound to the requested (page, process).
BoundTo(frs, page_number, process_id) ==
    {i \in 1 .. Len(frs) :
        frs[i].page_number = page_number /\ frs[i].process_id = process_id}
IsAccess == mem_calls' = mem_calls + 1

C7_HitAndFault ==
    /\ [](mem_calls > 0 =>
            /\ BoundTo(frames, mem_call.page, mem_call.pid) # {}
            /\ mem_call.fault =>
                  Cardinality(BoundTo(frames, mem_call.page, mem_call.pid)) = 1)
    /\ [][IsAccess =>
            \A pg \in Pages \cup InSeq(ScenarioPages), pid \in MemPids :
               (/\ mem_call'.page = pg
                /\ mem_call'.pid = pid
                /\ \/ BoundTo(frames, pg, pid) # {}
                   \/ mem_calls > 0 /\ mem_call.page = pg /\ mem_call.pid = pid)
               => /\ ~mem_call'.fault
                  /\ page_hits' = page_hits + 1
                  /\ page_faults' = page_faults]_vars

C7_Witness ==
    /\ pc = "caller"
    /\ num_frames = 2
    /\ ~mem_call.fault
    /\ page_hits = 1
    /\ page_faults = 3

\* C8: a fault with every frame bound rebinds one frame and leaves the
\* others alone: the frame with the smallest last_access_time under LRU,
\* the smallest load_time under FIFO, and the first such frame in storage
\* order when several share the smallest value.
AllBound(frs) == \A i \in 1 .. Len(frs) : frs[i].page_number # None
EvictionKey(f) ==
    IF replacement_algorithm = "FIFO" THEN f.load_time ELSE f.last_access_time

C8_Victim ==
    [][(IsAccess /\ mem_call'.fault /\ AllBound(frames)) =>
         \E v \in 1 .. Len(frames) :
            /\ \A j \in 1 .. Len(frames) : EvictionKey(frames[v]) <= EvictionKey(frames[j])
            /\ \A j \in 1 .. v - 1 : EvictionKey(frames[j]) > EvictionKey(frames[v])
            /\ frames'[v] # frames[v]
            /\ frames'[v].page_number = mem_call'.page
            /\ frames'[v].process_id = mem_call'.pid
            /\ \A j \in 1 .. Len(frames) : j # v => frames'[j] = frames[j]]_vars

C8_Witness ==
    /\ pc = "caller"
    /\ replacement_algorithm = "FIFO"
    /\ num_frames = 2
    /\ mem_call.fault
    /\ page_hits = 1
    /\ page_faults = 3
    /\ frames[1].load_time > frames[2].load_time
    /\ frames[2].last_access_time > frames[2].load_time

\* C9: 2 frames, LRU, pages 1, 2, 3 accessed by one process: three faults,
\* no hit, the third access takes the frame of page 1, and the frames hold
\* pages 3 and 2 of that process, whether the timestamps of the three
\* accesses differ or not.
FramePages == [i \in 1 .. Len(frames) |-> frames[i].page_number]

C9_LruScenario ==
    /\ mem_calls \in 1 .. 3 =>
          /\ mem_call.fault
          /\ page_faults = mem_calls
          /\ page_hits = 0
    /\ mem_calls = 1 => FramePages = <<1, None>>
    /\ mem_calls = 2 => FramePages = <<1, 2>>
    /\ mem_calls = 3 =>
          /\ FramePages = <<3, 2>>
          /\ \A i \in 1 .. 2 : frames[i].process_id = mem_call.pid

C9_Witness ==
    /\ mem_calls = 3
    /\ FramePages = <<3, 2>>
    /\ frames[1].last_access_time = frames[2].last_access_time

\* C10: get_memory_usage is 100 * bound frames / num_frames, never goes
\* down in an access, is 100 exactly when every frame is bound, and stays
\* 100 from then on.
UsageIs100 == get_memory_usage.num = 100 * get_memory_usage.den

C10_MemoryUsage ==
    /\ [](/\ get_memory_usage.den = Len(frames)
          /\ get_memory_usage.den > 0
          /\ get_memory_usage.num =
                100 * (Len(frames) - Cardinality(BoundTo(frames, None, None)))
          /\ get_memory_usage.num <= 100 * get_memory_usage.den
          /\ AllBound(frames) <=> UsageIs100)
    /\ [][/\ get_memory_usage.num' * get_memory_usage.den
                >= get_memory_usage.num * get_memory_usage.den'
          /\ UsageIs100 => UsageIs100']_vars

C10_Witness ==
    /\ pc = "caller"
    /\ num_frames = 2
    /\ UsageIs100
    /\ page_faults = 4

\* ------------------------------------------- file system, metrics, GUI
InFlight == {c \in Callers : callers[c].pc # "idle"}
Returns(c) == callers[c].pc # "idle" /\ callers'[c].pc = "idle"
Statuses(log) == {log[i].status : i \in 1 .. Len(log)}
ConflictEntries(log) == Cardinality({i \in 1 .. Len(log) : log[i].status = "CONFLICT"})
SingleCaller == Cardinality({c \in Callers : callers[c].called}) <= 1

\* C11: a call of access_file that found its lock free returns True, has
\* appended exactly one entry, a SUCCESS one, and leaves the lock free when
\* it returns; as long as a single caller has made every call, conflicts is
\* 0 and every entry of the log is a SUCCESS entry.
C11_Uncontended ==
    /\ [][\A c \in Callers : Returns(c) /\ callers[c].free =>
              /\ callers'[c].result = TRUE
              /\ callers'[c].appended = <<"SUCCESS">>
              /\ ~files'[callers[c].file]]_vars
    /\ [](SingleCaller => conflicts = 0 /\ Statuses(access_log) \subseteq {"SUCCESS"})

C11_Witness ==
    /\ SingleCaller
    /\ InFlight = {}
    /\ calls_done = 2
    /\ Len(access_log) = 2
    /\ access_log[1].file = access_log[2].file

\* C12: whenever no call of access_file is in flight, conflicts is the
\* number of CONFLICT entries of the log and the log has one entry per
\* call that returned.
C12_CounterMatchesLog ==
    InFlight = {} =>
        /\ conflicts = ConflictEntries(access_log)
        /\ Len(access_log) = calls_done

\* The entries of the log, one per call that returned, are never lost.
C12_LogComplete ==
    /\ [](InFlight = {} => Len(access_log) = calls_done)
    /\ [][Len(access_log') >= Len(access_log)]_vars

C12_LostUpdate ==
    /\ InFlight = {}
    /\ ConflictEntries(access_log) = 2
    /\ conflicts = 1

RECURSIVE SumOver(_, _)
SumOver(s, f) == IF s = <<>> THEN 0 ELSE f[Head(s)] + SumOver(Tail(s), f)
WaitingTimes == [p \in Pids |-> P(p).waiting_time]
Turnarounds == [p \in Pids |-> P(p).finish_time - P(p).arrival_time]
\* The fraction q is the quotient a / b.
IsQuotient(q, a, b) == q.den # 0 /\ q.num * b = a * q.den

\* C13: get_metrics gives total_processes = the length of the completed
\* list; with no completed process the two averages are 0; otherwise
\* avg_waiting_time is the sum of waiting_time over the completed processes
\* divided by their number, and avg_turnaround_time the sum of
\* finish_time - arrival_time divided by their number.
C13_Metrics ==
    LET n == Len(completed_processes)
    IN  /\ get_metrics.total_processes = n
        /\ n = 0 => get_metrics.avg_waiting_time = Zero
                    /\ get_metrics.avg_turnaround_time = Zero
        /\ n > 0 => /\ IsQuotient(get_metrics.avg_waiting_time,
                                   SumOver(completed_processes, WaitingTimes), n)
                    /\ IsQuotient(get_metrics.avg_turnaround_time,
                                   SumOver(completed_processes, Turnarounds), n)

C13_Witness ==
    /\ Len(completed_processes) = 2
    /\ get_metrics.avg_waiting_time.num > 0
    /\ get_metrics.avg_turnaround_time.num > get_metrics.avg_waiting_time.num

\* C15: in every state and for every process, state is TERMINATED exactly
\* when remaining_time is 0 and finish_time is set: a NEW, READY or RUNNING
\* process has remaining_time > 0 and no finish_time.
C15_TerminatedIffDone ==
    \A p \in Pids :
        /\ P(p).state = "TERMINATED" <=> (P(p).remaining_time = 0 /\ P(p).finish_time # None)
        /\ P(p).state \in {"NEW", "READY", "RUNNING"} =>
               P(p).remaining_time > 0 /\ P(p).finish_time = None

C15_Witness ==
    \E p, q \in Pids :
        /\ P(p).state = "TERMINATED"
        /\ P(q).state = "RUNNING"
        /\ P(q).remaining_time < P(q).burst_time

Edges ==
    {<<"NEW", "READY">>, <<"READY", "RUNNING">>, <<"RUNNING", "READY">>,
     <<"RUNNING", "TERMINATED">>}

\* C19: every change of a process's state is NEW -> READY, READY -> RUNNING,
\* RUNNING -> READY or RUNNING -> TERMINATED; no process is ever WAITING; a
\* TERMINATED process changes no more, is not in the ready queue and is not
\* dispatched again.
C19_StateEdges ==
    /\ [][\A p \in Pids :
              /\ processes'[p + 1].state # P(p).state =>
                     <<P(p).state, processes'[p + 1].state>> \in Edges
              /\ P(p).state = "TERMINATED" =>
                     /\ processes'[p + 1] = P(p)
                     /\ Count(ready_queue', p) = 0
                     /\ dispatch_order' = dispatch_order \/ process' # p]_vars
    /\ [](\A p \in Pids : P(p).state # "WAITING")

C19_Witness ==
    \E p, q \in Pids :
        /\ P(p).state = "TERMINATED"
        /\ Count(dispatch_order, p) >= 2
        /\ P(q).state = "RUNNING"
        /\ Count(dispatch_order, q) >= 2

Dispatched(p) == dispatch_order' # dispatch_order /\ process' = p

\* C20: start_time is None until the first dispatch of the process, is set
\* to current_time by that dispatch and never changes afterwards;
\* finish_time is set once, to current_time as it is after the final slice;
\* every terminated process has arrival_time <= start_time < finish_time.
C20_Timestamps ==
    /\ [](\A p \in Pids :
              /\ P(p).start_time = None <=> Count(dispatch_order, p) = 0
              /\ P(p).state = "TERMINATED" =>
                     /\ P(p).arrival_time <= P(p).start_time
                     /\ P(p).start_time < P(p).finish_time)
    /\ [][\A p \in Pids :
              /\ processes'[p + 1].start_time # P(p).start_time =>
                     /\ P(p).start_time = None
                     /\ Count(dispatch_order, p) = 0
                     /\ Dispatched(p)
                     /\ processes'[p + 1].start_time = current_time
              /\ processes'[p + 1].finish_time # P(p).finish_time =>
                     /\ P(p).finish_time = None
                     /\ processes'[p + 1].finish_time = current_time'
                     /\ processes'[p + 1].remaining_time = 0
                     /\ IsExecuteStep]_vars

C20_Witness ==
    \E p \in Pids :
        /\ P(p).state = "TERMINATED"
        /\ Count(dispatch_order, p) >= 2
        /\ P(p).start_time > P(p).arrival_time
        /\ P(p).finish_time > P(p).start_time + P(p).burst_time

IsGetNextProcess == pc = "loop" /\ pc' \in {"exit", "execute"}

\* C18: get_next_process on an empty ready queue returns None and leaves
\* the ready queue, the completed list, current_time, the metrics and every
\* process unchanged; on a non-empty queue it returns the head, removes
\* exactly the head and keeps the order of the rest, sets the state of that
\* process to RUNNING (and its start_time), and changes no other process.
C18_GetNextProcess ==
    [][IsGetNextProcess =>
          /\ UNCHANGED <<completed_processes, current_time, metrics>>
          /\ IF ready_queue = <<>>
             THEN /\ process' = None
                  /\ UNCHANGED <<ready_queue, processes>>
             ELSE /\ process' = Head(ready_queue)
                  /\ ready_queue' = Tail(ready_queue)
                  /\ \A p \in Pids :
                        processes'[p + 1] =
                            IF p = Head(ready_queue)
                            THEN [P(p) EXCEPT !.state = "RUNNING",
                                              !.start_time = processes'[p + 1].start_time]
                            ELSE P(p)]_vars

C18_Witness ==
    /\ pc = "exit"
    /\ process = None
    /\ ready_queue = <<>>
    /\ Len(completed_processes) = 2
    /\ Len(dispatch_order) >= 3

OutOfRange(text) == ValueError(text) \/ int(text) <= 0

\* C14: while the quantum, the frame count or the process count of the
\* entries is not a number or is zero or negative, no step builds an
\* engine, generates or admits a process, sets running or starts a thread.
C14_Rejected ==
    [][(\E field \in Fields : OutOfRange(entries[field])) =>
          /\ UNCHANGED <<engines, processes, ready_queue, threads>>
          /\ ~running => ~running']_vars

\* A text that is not a number is rejected.
C14_NotANumber ==
    [][(\E field \in Fields : ValueError(entries[field])) =>
          /\ UNCHANGED <<engines, processes, ready_queue, threads>>
          /\ ~running => ~running']_vars

C14_ZeroFrames ==
    /\ running
    /\ engines = 1
    /\ num_frames = 0
    /\ frames = <<>>
    /\ Len(ready_queue) = 2
    /\ threads[1].pc = "loop"

InLoop == {t \in Threads : threads[t].pc \in {"step", "execute"}}

\* C16: whatever the presses of start, pause and stop, at most one
\* simulation thread is inside the loop of run_simulation, past the loop
\* test and calling get_next_process or execute_process.
C16_OneThreadInLoop == Cardinality(InLoop) <= 1

C16_TwoThreads ==
    /\ threads[1].pc = "execute"
    /\ threads[2].pc = "execute"
    /\ threads[1].process # threads[2].process

EngineState ==
    <<ready_queue, completed_processes, current_time, frames, page_hits, page_faults,
      access_log>>

\* C17: from the step that sets paused until the step that clears it, the
\* ready queue, the completed list, current_time, the frames, the hit and
\* fault counters and the access log do not change.
C17_FrozenWhilePaused == [][paused /\ paused' => UNCHANGED EngineState]_vars

\* paused is set and the only thread is past its test of paused, about to
\* call get_next_process.
C17_PausedPastTest ==
    /\ paused
    /\ engines = 1
    /\ threads[1].pc = "step"
    /\ threads[2].pc = "none"
    /\ ready_queue # <<>>

\* ------------------------------------------------- frames, locks, clocks
Changed == {i \in 1 .. Len(frames) : frames'[i] # frames[i]}
Unbound(frs) == {i \in 1 .. Len(frs) : frs[i].page_number = None}

\* C21: a fault changes exactly one frame; while an unbound frame exists
\* that frame is the first unbound one in storage order, so no bound frame
\* is overwritten; a hit changes nothing but the last_access_time of the
\* first frame bound to the requested (page, process).
C21_FrameEffect ==
    [][IsAccess =>
          /\ Len(frames') = Len(frames)
          /\ IF mem_call'.fault
             THEN /\ Cardinality(Changed) = 1
                  /\ Unbound(frames) # {} =>
                        /\ Changed = {FirstOf(Unbound(frames))}
                        /\ Unbound(frames') = Unbound(frames) \ Changed
             ELSE /\ BoundTo(frames, mem_call'.page, mem_call'.pid) # {}
                  /\ LET m == FirstOf(BoundTo(frames, mem_call'.page, mem_call'.pid))
                     IN  /\ Changed \subseteq {m}
                         /\ frames'[m] = [frames[m] EXCEPT
                                !.last_access_time = mem_call'.time]]_vars

C21_Witness ==
    /\ pc = "caller"
    /\ num_frames = 2
    /\ page_faults = 1
    /\ page_hits = 1
    /\ frames[1].last_access_time > frames[1].load_time
    /\ frames[2] = EmptyFrame

Bound(frs) == {i \in 1 .. Len(frs) : frs[i].page_number # None}

\* C25: after any access_page calls on a MemoryManager with at least one
\* frame, no two frames are bound to the same (page_number, process_id);
\* no unbound frame precedes a bound one; the number of bound frames is
\* min(num_frames, page_faults); and page_hits + page_faults is the number
\* of calls made.
C25_MemoryInvariants ==
    /\ \A i, j \in Bound(frames) :
          (/\ frames[i].page_number = frames[j].page_number
           /\ frames[i].process_id = frames[j].process_id) => i = j
    /\ \A i \in Bound(frames) : \A j \in 1 .. i : j \in Bound(frames)
    /\ Cardinality(Bound(frames)) = Min(num_frames, page_faults)
    /\ page_hits + page_faults = mem_calls

C25_Witness ==
    /\ pc = "caller"
    /\ num_frames = 2
    /\ page_faults = 3
    /\ page_hits = 1
    /\ frames[1].page_number = frames[2].page_number
    /\ frames[1].process_id # frames[2].process_id

Holders(f) ==
    {c \in Callers : callers[c].pc \in {"append_success", "sleep"} /\ callers[c].file = f}
Starts(c) == callers[c].pc = "idle" /\ callers'[c].pc # "idle"
\* The next step of the call caller c is in.
StepOf(c) ==
    /\ \/ append_success(c)
       \/ release(c)
       \/ read_conflicts(c)
       \/ write_conflicts(c)
       \/ append_conflict(c)
    /\ UNCHANGED <<sched_vars, gui_vars, mem_vars, obs_vars, ctl_vars>>

\* C22: under concurrent callers of access_file each lock is held by at
\* most one caller at a time; a call never waits (its next step can always
\* be taken) and returns with exactly one entry appended, SUCCESS if it
\* acquired the lock and CONFLICT if not; a call is a conflict only when
\* another call in flight holds the lock of the same file name; and every
\* lock is free whenever no call is in flight.
C22_LockExclusion ==
    /\ [](/\ \A f \in DOMAIN files :
                /\ Cardinality(Holders(f)) <= 1
                /\ files[f] <=> Holders(f) # {}
          /\ \A c \in InFlight : ENABLED StepOf(c)
          /\ InFlight = {} => \A f \in DOMAIN files : ~files[f])
    /\ [][\A c \in Callers :
              /\ Starts(c) =>
                    IF callers'[c].pc = "append_success"
                    THEN Holders(callers'[c].file) = {}
                    ELSE /\ callers'[c].pc = "read_conflicts"
                         /\ Holders(callers'[c].file) \ {c} # {}
              /\ Returns(c) =>
                    /\ Len(callers'[c].appended) = 1
                    /\ Len(access_log') <= Len(access_log) + 1
                    /\ callers'[c].appended[1] =
                          (IF callers[c].free THEN "SUCCESS" ELSE "CONFLICT")
                    /\ callers'[c].result = callers[c].free]_vars

C22_Witness ==
    /\ callers[1].pc = "sleep"
    /\ callers[2].pc = "sleep"
    /\ callers[1].file # callers[2].file
    /\ callers[3].pc = "read_conflicts"
    /\ callers[3].file = callers[2].file

Executed == [p \in Pids |-> P(p).burst_time - P(p).remaining_time]
Bursts == [p \in Pids |-> P(p).burst_time]
AllPids == [i \in 1 .. Len(processes) |-> i - 1]

\* C23: between advance steps current_time is the sum over the generated
\* processes of burst_time - remaining_time; when the run is complete it is
\* the sum of the burst times; and current_time never decreases.
C23_ClockIsWorkDone ==
    /\ [](pc # "execute" =>
            /\ current_time = SumOver(AllPids, Executed)
            /\ RunComplete => current_time = SumOver(AllPids, Bursts))
    /\ [][current_time' >= current_time]_vars

C23_Witness ==
    /\ RunComplete
    /\ Len(processes) = 2
    /\ current_time = P(0).burst_time + P(1).burst_time
    /\ Len(dispatch_order) >= 3

\* C24: in a run, where every process is admitted before the first slice,
\* every terminated process has waiting_time = finish_time - arrival_time -
\* burst_time, which is not negative and is the execution time given to the
\* other processes before it finished.
C24_WaitingTime ==
    \A p \in Pids :
        P(p).state = "TERMINATED" =>
            /\ P(p).waiting_time = P(p).finish_time - P(p).arrival_time - P(p).burst_time
            /\ P(p).waiting_time >= 0
            /\ P(p).waiting_time = waited[p + 1]

C24_Witness ==
    \E p, q \in Pids :
        /\ P(p).state = "TERMINATED"
        /\ P(q).state = "TERMINATED"
        /\ P(p).waiting_time > 0
        /\ P(q).waiting_time > P(p).waiting_time
        /\ Count(dispatch_order, q) >= 2
====
